---- MODULE Spec2Model ----
(***************************************************************************)
(* The STARK verifier of verifier/src/lib.rs: verify() and                 *)
(* perform_verification(), as a state machine with one step per statement  *)
(* of the protocol.  The proof, the AIR and the base field are inputs; the *)
(* public coin, the channel, the AIR's draws, the constraint evaluator,    *)
(* the DEEP composer and the FRI verifier live in other files of the       *)
(* repository and are modelled from their documented contracts.            *)
(*                                                                         *)
(* The public inputs and the proof context are fixed in Init (they make up *)
(* the coin's seed).  Every other field of the proof, and every fact about *)
(* the AIR and the base field, is fixed too, but the model resolves it at  *)
(* the step that first reads it and remembers it in `known`: no step       *)
(* depends on a field it has not read, so the behaviours are those of a    *)
(* proof chosen up front, and a second call reads the very same values.    *)
(***************************************************************************)
EXTENDS Integers, Sequences, FiniteSets, TLC

\* ------------------------------------------------------------------ bounds

MaxSegments == 2      \* trace segments (main + auxiliary) a context declares
MaxOodEvals == 2      \* constraint composition columns in the OOD evaluations
MaxQueries == 2       \* configured number of queries
MaxGrinding == 1      \* configured grinding factor
MaxCalls == 2         \* calls of verify() over the same proof
MaxFoldColumns == 3   \* columns of OOD evaluations the reduction is checked over

\* --------------------------------------------------- field and hash (external)

\* Base field modulus; an element of any of the three field types is modelled
\* as a residue, the extension arithmetic being outside the verifier.
Modulus == 5
\* Number of bits of a digest / of the coin's seed.
DigestBits == 4
\* Attempts a draw makes before it gives up (rejection sampling).
DrawRetries == 2
\* Attempts draw_integers makes before it gives up.
IntegerRetries == 4

Pow2(n) == 2 ^ n
DigestSpace == Pow2(DigestBits)
Digests == 0 .. DigestSpace - 1
Elements == 0 .. Modulus - 1

\* Two-to-one compression of the hash chain: order sensitive, not commutative.
Merge(a, b) == (5 * a + 7 * b + 3) % DigestSpace

RECURSIVE HashFrom(_, _)
HashFrom(h, bytes) ==
    IF bytes = <<>> THEN h ELSE HashFrom(Merge(h, Head(bytes)), Tail(bytes))

\* H::hash_elements and the hash of a byte string.
hash_elements(elems) == HashFrom(Len(elems) + 1, elems)

\* ------------------------------------------------------------- RandomCoin

\* RandomCoin::new(seed)
RandomCoin_new(seed) == [seed |-> hash_elements(seed), counter |-> 0]

\* RandomCoin::reseed(digest)
reseed(coin, digest) == [seed |-> Merge(coin.seed, digest), counter |-> 0]

\* RandomCoin::reseed_with_int(value)
reseed_with_int(coin, value) ==
    [seed |-> Merge(coin.seed, (3 * value + 1) % DigestSpace), counter |-> 0]

RECURSIVE LeadingZeroBits(_, _)
LeadingZeroBits(v, bits) ==
    IF bits = 0 \/ v >= Pow2(bits - 1) THEN 0
    ELSE 1 + LeadingZeroBits(v, bits - 1)

\* RandomCoin::leading_zeros()
leading_zeros(coin) == LeadingZeroBits(coin.seed, DigestBits)

\* The next pseudo-random digest of the coin: hash of seed and counter.
NextValue(coin) ==
    LET c == coin.counter + 1
    IN (Merge(coin.seed, c) + (coin.seed * c * c) \div 2) % DigestSpace

Bump(coin) == [coin EXCEPT !.counter = @ + 1]

\* RandomCoin::draw(): rejection sampling of a field element; [ok, value, coin].
RECURSIVE DrawFrom(_, _)
DrawFrom(coin, tries) ==
    IF tries = 0 THEN [ok |-> FALSE, value |-> 0, coin |-> coin]
    ELSE LET cand == NextValue(coin) % 8
         IN IF cand < Modulus
               THEN [ok |-> TRUE, value |-> cand, coin |-> Bump(coin)]
               ELSE DrawFrom(Bump(coin), tries - 1)

draw(coin) == DrawFrom(coin, DrawRetries)

SeqToSet(s) == {s[k] : k \in 1 .. Len(s)}

\* RandomCoin::draw_integers(num_values, domain_size): distinct indices below
\* domain_size, or an error when the attempts run out; [ok, values, coin].
RECURSIVE DrawIntegersFrom(_, _, _, _, _)
DrawIntegersFrom(coin, values, num_values, domain_size, tries) ==
    IF Len(values) = num_values THEN [ok |-> TRUE, values |-> values, coin |-> coin]
    ELSE IF tries = 0 THEN [ok |-> FALSE, values |-> <<>>, coin |-> coin]
    ELSE LET v == NextValue(coin) % domain_size
         IN DrawIntegersFrom(Bump(coin),
                             IF v \in SeqToSet(values) THEN values ELSE Append(values, v),
                             num_values, domain_size, tries - 1)

draw_integers(coin, num_values, domain_size) ==
    DrawIntegersFrom(coin, <<>>, num_values, domain_size, IntegerRetries)

\* ----------------------------------------------------------------- inputs

PubInputs == {1, 2}
FieldExtensions == {"None", "Quadratic", "Cubic"}
LdeDomainSizes == {2, 4}

\* proof.context together with the options the AIR is built from.
Contexts ==
    [field_extension : FieldExtensions,
     num_segments : 1 .. MaxSegments,
     grinding_factor : 0 .. MaxGrinding,
     num_queries : 1 .. MaxQueries,
     lde_domain_size : LdeDomainSizes]

SeqsUpTo(S, n) == UNION {[1 .. k -> S] : k \in 0 .. n}

\* One commitment per segment the proof carries, each a digest of its own.
TraceCommitmentLists == {[k \in 1 .. n |-> k] : n \in 0 .. MaxSegments}
ConstraintCommitments == {3}
MainFrames == {[current |-> <<1>>, next |-> <<2>>]}
AuxFrames == {[current |-> <<0>>, next |-> <<4>>]}
NoFrame == [current |-> <<>>, next |-> <<>>]
\* One list of column evaluations per number of columns; every list of field
\* elements is gone through in FoldSpec.
OodEvaluationLists == {[k \in 1 .. n |-> k] : n \in 0 .. MaxOodEvals}
FriProofs ==
    {[ok |-> FALSE, domain_size |-> 0, layer_commitment |-> 0]}
    \cup {[ok |-> TRUE, domain_size |-> d, layer_commitment |-> 6] : d \in LdeDomainSizes}
PowNonces == {0, 1}

\* The proof's fields before any is read.
UnreadProof ==
    [trace_commitments |-> <<>>, well_sized |-> FALSE, constraint_commitment |-> 0,
     ood_main_trace_frame |-> NoFrame, ood_aux_trace_frame |-> NoFrame,
     ood_constraint_evaluations |-> <<>>,
     fri |-> [ok |-> FALSE, domain_size |-> 0, layer_commitment |-> 0],
     pow_nonce |-> 0, trace_queries_ok |-> FALSE, constraint_queries_ok |-> FALSE,
     fri_queries_ok |-> FALSE]

\* What the AIR and its base field answer, before any is asked.
UnaskedAir == [quad_supported |-> FALSE, cube_supported |-> FALSE, ood_evaluation |-> 0]

\* ------------------------------------------------------------------ state

VARIABLES
    pc,                          \* position in verify / perform_verification
    call,                        \* calls of verify() begun so far
    result,                      \* what the current call returned
    pub_inputs, context,         \* inputs: public inputs, proof.context
    proof, air_facts, known,     \* inputs resolved when first read
    public_coin_seed, public_coin, channel,
    trace_commitments, aux_index, aux_trace_rand_elements, constraint_coeffs,
    constraint_commitment, z,
    ood_main_trace_frame, ood_aux_trace_frame, aux_frame_present,
    ood_constraint_evaluation_1, ood_constraint_evaluations, ood_constraint_evaluation_2,
    deep_coefficients, fri_verifier,
    pow_nonce, pow_zeros, query_positions,
    queried_trace_states, queried_constraint_evaluations, deep_evaluations,
    composer,                    \* the DEEP composer and what it was built from
    position_uses,               \* the positions each consumer was handed, in order
    log,                         \* coin and channel operations of the current call, in order
    prev                         \* what the previous call derived and returned

inputs == <<pub_inputs, context>>
resolved == <<proof, air_facts, known>>
setup == <<public_coin_seed, channel>>
stage1 == <<trace_commitments, aux_index, aux_trace_rand_elements, constraint_coeffs>>
stage2 == <<constraint_commitment, z>>
stage3 == <<ood_main_trace_frame, ood_aux_trace_frame, aux_frame_present,
            ood_constraint_evaluation_1, ood_constraint_evaluations,
            ood_constraint_evaluation_2>>
stage4 == <<deep_coefficients, fri_verifier>>
stage5 == <<pow_nonce, pow_zeros, query_positions>>
stage67 == <<queried_trace_states, queried_constraint_evaluations, deep_evaluations,
             composer, position_uses>>
locals == <<setup, stage1, stage2, stage3, stage4, stage5, stage67>>
vars == <<pc, call, result, inputs, resolved, public_coin, locals, log, prev>>

\* One operation on the coin, the channel, the AIR or the FRI verifier: what it
\* was, on what, for which segment, and whether it succeeded.
Ev(op, obj, idx, ok) == [op |-> op, obj |-> obj, idx |-> idx, ok |-> ok]

NoCoin == [seed |-> 0, counter |-> 0]
NoFri == [built |-> FALSE, domain_size |-> 0]

\* What a call derived from the transcript, and what it returned.
Snapshot ==
    [result |-> result, log |-> log,
     aux_trace_rand_elements |-> aux_trace_rand_elements,
     constraint_coeffs |-> constraint_coeffs, z |-> z,
     deep_coefficients |-> deep_coefficients, query_positions |-> query_positions]

NoComposer == [built |-> FALSE, query_positions |-> <<>>, z |-> 0, cc |-> <<>>]

\* A consumer of the query positions and the positions it was handed.
Use(consumer, positions) == [consumer |-> consumer, positions |-> positions]

NoSnapshot ==
    [result |-> "none", log |-> <<>>, aux_trace_rand_elements |-> <<>>,
     constraint_coeffs |-> <<>>, z |-> 0, deep_coefficients |-> <<>>,
     query_positions |-> <<>>]

FreshLocals ==
    /\ public_coin_seed' = <<>>
    /\ channel' = FALSE
    /\ trace_commitments' = <<>>
    /\ aux_index' = 0
    /\ aux_trace_rand_elements' = <<>>
    /\ constraint_coeffs' = <<>>
    /\ constraint_commitment' = 0
    /\ z' = 0
    /\ ood_main_trace_frame' = NoFrame
    /\ ood_aux_trace_frame' = NoFrame
    /\ aux_frame_present' = FALSE
    /\ ood_constraint_evaluation_1' = 0
    /\ ood_constraint_evaluations' = <<>>
    /\ ood_constraint_evaluation_2' = 0
    /\ deep_coefficients' = <<>>
    /\ fri_verifier' = NoFri
    /\ pow_nonce' = 0
    /\ pow_zeros' = 0
    /\ query_positions' = <<>>
    /\ queried_trace_states' = <<>>
    /\ queried_constraint_evaluations' = <<>>
    /\ deep_evaluations' = <<>>
    /\ composer' = NoComposer
    /\ position_uses' = <<>>

Init ==
    /\ pc = "idle"
    /\ call = 0
    /\ result = "none"
    /\ pub_inputs \in PubInputs
    /\ context \in Contexts
    /\ proof = UnreadProof
    /\ air_facts = UnaskedAir
    /\ known = {}
    /\ public_coin = NoCoin
    /\ public_coin_seed = <<>>
    /\ channel = FALSE
    /\ trace_commitments = <<>>
    /\ aux_index = 0
    /\ aux_trace_rand_elements = <<>>
    /\ constraint_coeffs = <<>>
    /\ constraint_commitment = 0
    /\ z = 0
    /\ ood_main_trace_frame = NoFrame
    /\ ood_aux_trace_frame = NoFrame
    /\ aux_frame_present = FALSE
    /\ ood_constraint_evaluation_1 = 0
    /\ ood_constraint_evaluations = <<>>
    /\ ood_constraint_evaluation_2 = 0
    /\ deep_coefficients = <<>>
    /\ fri_verifier = NoFri
    /\ pow_nonce = 0
    /\ pow_zeros = 0
    /\ query_positions = <<>>
    /\ queried_trace_states = <<>>
    /\ queried_constraint_evaluations = <<>>
    /\ deep_evaluations = <<>>
    /\ composer = NoComposer
    /\ position_uses = <<>>
    /\ log = <<>>
    /\ prev = NoSnapshot

\* The values a field of the proof can hold: the one already read, or any.
ProofField(name, domain) == IF name \in known THEN {proof[name]} ELSE domain
AirFact(name, domain) == IF name \in known THEN {air_facts[name]} ELSE domain

ReadProof(name, v) ==
    /\ proof' = [proof EXCEPT ![name] = v]
    /\ known' = known \cup {name}
    /\ UNCHANGED air_facts

\* return Err(e) / return Ok(())
Return(r) ==
    /\ pc' = "done"
    /\ result' = r

Goto(l) ==
    /\ pc' = l
    /\ UNCHANGED result

\* -------------------------------------------------- the AIR (external trait)

\* Draws n field elements in a row; [ok, values, coin].
RECURSIVE DrawElements(_, _, _)
DrawElements(coin, n, acc) ==
    IF n = 0 THEN [ok |-> TRUE, values |-> acc, coin |-> coin]
    ELSE LET d == draw(coin)
         IN IF d.ok THEN DrawElements(d.coin, n - 1, Append(acc, d.value))
            ELSE [ok |-> FALSE, values |-> <<>>, coin |-> d.coin]

\* Air::get_aux_trace_segment_random_elements(i, coin)
get_aux_trace_segment_random_elements(i, coin) == DrawElements(coin, 1, <<>>)

\* Air::get_constraint_composition_coefficients(coin)
get_constraint_composition_coefficients(coin) == DrawElements(coin, 2, <<>>)

\* Air::get_deep_composition_coefficients(coin)
get_deep_composition_coefficients(coin) == DrawElements(coin, 2, <<>>)

\* --------------------------------------------------------- channel (external)

\* VerifierChannel::new(air, proof): the proof's shape must be the context's.
VerifierChannel_new(ctx, commitments, well_sized) ==
    well_sized /\ Len(commitments) = ctx.num_segments

\* The committed evaluations at an LDE position.
TraceStateAt(position) == (position + 1) % Modulus
ConstraintEvaluationAt(position) == (2 * position + 1) % Modulus

\* ------------------------------------------------- FRI verifier (external)

\* FriVerifier::new: absorbs the layer commitment and draws its alpha;
\* [ok, coin, domain_size].
FriVerifier_new(coin, fri) ==
    LET alpha == draw(reseed(coin, fri.layer_commitment))
    IN [ok |-> fri.ok /\ alpha.ok, coin |-> alpha.coin, domain_size |-> fri.domain_size]

\* ----------------------------------------------------------------- verify

FieldExtensionCode(e) ==
    CASE e = "None" -> 1 [] e = "Quadratic" -> 2 [] e = "Cubic" -> 3

\* pub_inputs.write_into(..)
WritePubInputs(pi) == <<pi>>

\* proof.context.write_into(..)
WriteContext(ctx) ==
    <<ctx.num_segments, ctx.lde_domain_size, FieldExtensionCode(ctx.field_extension),
      ctx.grinding_factor, ctx.num_queries>>

\* The two writes of lines 92-93 in the other order: context first.
BuildSeedContextFirst(pi, ctx) == WriteContext(ctx) \o WritePubInputs(pi)

\* A seed that also takes in how many calls came before.
BuildSeedWithCallCount(pi, ctx) == WritePubInputs(pi) \o WriteContext(ctx) \o <<call>>

\* Lines 91-93: the seed is the public inputs, then the context.
BuildSeed(pi, ctx) == WritePubInputs(pi) \o WriteContext(ctx)

\* verify() is entered: on the first call, or again over the same proof and
\* public inputs once the previous call has returned.
Verify ==
    /\ pc \in {"idle", "done"}
    /\ call < MaxCalls
    /\ call' = call + 1
    /\ prev' = IF call = 0 THEN NoSnapshot ELSE Snapshot
    /\ FreshLocals
    /\ public_coin' = NoCoin
    /\ log' = <<>>
    /\ pc' = "seed"
    /\ result' = "none"
    /\ UNCHANGED <<inputs, resolved>>

\* Lines 91-96: the seed is built and the AIR instantiated.
MakeSeed ==
    /\ pc = "seed"
    /\ public_coin_seed' = BuildSeed(pub_inputs, context)
    /\ Goto("dispatch")
    /\ UNCHANGED <<call, inputs, resolved, public_coin, channel, stage1, stage2, stage3,
                   stage4, stage5, stage67, log, prev>>

\* The two is_supported() tests taken for each other.
UnsupportedDegreeSwapped(ext, quad_supported, cube_supported) ==
    CASE ext = "Quadratic" /\ ~cube_supported -> 2
      [] ext = "Cubic" /\ ~quad_supported -> 3
      [] OTHER -> 0

\* Lines 100-117: the degree of the declared extension when the base field
\* lacks it, else 0.
UnsupportedDegree(ext, quad_supported, cube_supported) ==
    CASE ext = "Quadratic" /\ ~quad_supported -> 2
      [] ext = "Cubic" /\ ~cube_supported -> 3
      [] OTHER -> 0

ExtensionError(degree) ==
    IF degree = 2 THEN "UnsupportedFieldExtension(2)" ELSE "UnsupportedFieldExtension(3)"

\* Lines 100-117: the match on the field extension and its is_supported() test.
CheckExtension ==
    /\ pc = "dispatch"
    /\ \E q \in AirFact("quad_supported", IF context.field_extension = "Quadratic"
                                              THEN BOOLEAN ELSE {FALSE}),
          c \in AirFact("cube_supported", IF context.field_extension = "Cubic"
                                              THEN BOOLEAN ELSE {FALSE}) :
          /\ air_facts' = [air_facts EXCEPT !.quad_supported = q, !.cube_supported = c]
          /\ known' = known \cup (CASE context.field_extension = "Quadratic" -> {"quad_supported"}
                                    [] context.field_extension = "Cubic" -> {"cube_supported"}
                                    [] OTHER -> {})
          /\ LET degree == UnsupportedDegree(context.field_extension, q, c)
             IN IF degree # 0 THEN Return(ExtensionError(degree)) ELSE Goto("coin")
    /\ UNCHANGED <<call, inputs, proof, public_coin, locals, log, prev>>

\* Lines 102, 110, 118: the public coin is created from the seed.
NewCoin ==
    /\ pc = "coin"
    /\ public_coin' = RandomCoin_new(public_coin_seed)
    /\ log' = Append(log, Ev("new", "coin", 0, TRUE))
    /\ Goto("channel")
    /\ UNCHANGED <<call, inputs, resolved, locals, prev>>

\* The channel's refusal dropped: the call goes on over a mis-shaped proof.
NewChannelUnchecked ==
    /\ pc = "channel"
    /\ \E tc \in ProofField("trace_commitments", TraceCommitmentLists),
          ws \in ProofField("well_sized", BOOLEAN) :
          /\ proof' = [proof EXCEPT !.trace_commitments = tc, !.well_sized = ws]
          /\ known' = known \cup {"trace_commitments", "well_sized"}
          /\ channel' = TRUE
          /\ log' = Append(log, Ev("new", "channel", 0, TRUE))
          /\ Goto("trace_commitments")
    /\ UNCHANGED <<call, inputs, air_facts, public_coin, public_coin_seed, stage1, stage2,
                   stage3, stage4, stage5, stage67, prev>>

\* Lines 103, 111, 119: the channel is built from the proof, or the call ends.
NewChannel ==
    /\ pc = "channel"
    /\ \E tc \in ProofField("trace_commitments", TraceCommitmentLists),
          ws \in ProofField("well_sized", BOOLEAN) :
          /\ proof' = [proof EXCEPT !.trace_commitments = tc, !.well_sized = ws]
          /\ known' = known \cup {"trace_commitments", "well_sized"}
          /\ IF VerifierChannel_new(context, tc, ws)
                THEN /\ channel' = TRUE
                     /\ log' = Append(log, Ev("new", "channel", 0, TRUE))
                     /\ Goto("trace_commitments")
                ELSE /\ UNCHANGED <<channel, log>>
                     /\ Return("ProofDeserializationError")
    /\ UNCHANGED <<call, inputs, air_facts, public_coin, public_coin_seed, stage1, stage2,
                   stage3, stage4, stage5, stage67, prev>>

\* --------------------------------------------------- perform_verification

\* Line 148: channel.read_trace_commitments()
ReadTraceCommitments ==
    /\ pc = "trace_commitments"
    /\ trace_commitments' = proof.trace_commitments
    /\ log' = Append(log, Ev("read", "trace_commitments", 0, TRUE))
    /\ Goto("reseed_main")
    /\ UNCHANGED <<call, inputs, resolved, public_coin, setup, aux_index,
                   aux_trace_rand_elements, constraint_coeffs, stage2, stage3, stage4,
                   stage5, stage67, prev>>

\* A slip that takes the second commitment for the main segment's.
MainCommitmentIndexOffByOne == 0 + 1

\* Line 151: the index of the main trace segment's commitment.
MainCommitmentIndex == 0

\* Line 151: public_coin.reseed(trace_commitments[0]); an index past the end
\* of the list aborts the call.
ReseedMainCommitment ==
    /\ pc = "reseed_main"
    /\ IF MainCommitmentIndex >= Len(trace_commitments)
          THEN /\ pc' = "panicked"
               /\ result' = "panic"
               /\ UNCHANGED <<public_coin, log>>
          ELSE /\ public_coin' = reseed(public_coin,
                                         trace_commitments[MainCommitmentIndex + 1])
               /\ log' = Append(log, Ev("reseed", "trace_commitment", 0, TRUE))
               /\ Goto("aux_segments")
    /\ UNCHANGED <<call, inputs, resolved, locals, prev>>

\* The loop skipping the first auxiliary segment as well as the main one.
AuxSegmentsSkipTwo(commitments) == Len(commitments) - 2

\* Line 155: trace_commitments.iter().skip(1): every segment but the main one.
AuxSegments(commitments) == Len(commitments) - 1

\* The loop's body turned around: the segment's commitment is absorbed before
\* the segment's random elements are drawn.
AuxSegmentReseedFirst ==
    /\ pc = "aux_segments"
    /\ aux_index < Len(trace_commitments) - 1
    /\ LET r == get_aux_trace_segment_random_elements(
                    aux_index, reseed(public_coin, trace_commitments[aux_index + 2]))
       IN IF r.ok
             THEN /\ aux_trace_rand_elements' = Append(aux_trace_rand_elements, r.values)
                  /\ public_coin' = r.coin
                  /\ log' = log \o <<Ev("reseed", "trace_commitment", aux_index + 1, TRUE),
                                     Ev("draw", "aux_rand_elements", aux_index, TRUE)>>
                  /\ aux_index' = aux_index + 1
                  /\ Goto("aux_segments")
             ELSE /\ public_coin' = r.coin
                  /\ log' = log \o <<Ev("reseed", "trace_commitment", aux_index + 1, TRUE),
                                     Ev("draw", "aux_rand_elements", aux_index, FALSE)>>
                  /\ UNCHANGED <<aux_trace_rand_elements, aux_index>>
                  /\ Return("RandomCoinError")
    /\ UNCHANGED <<call, inputs, resolved, setup, trace_commitments, constraint_coeffs,
                   stage2, stage3, stage4, stage5, stage67, prev>>

\* Lines 155-161: one turn of the loop over the auxiliary segments' commitments.
AuxSegment ==
    /\ pc = "aux_segments"
    /\ aux_index < AuxSegments(trace_commitments)
    /\ LET r == get_aux_trace_segment_random_elements(aux_index, public_coin)
       IN IF r.ok
             THEN /\ aux_trace_rand_elements' = Append(aux_trace_rand_elements, r.values)
                  /\ public_coin' = reseed(r.coin, trace_commitments[aux_index + 2])
                  /\ log' = log \o <<Ev("draw", "aux_rand_elements", aux_index, TRUE),
                                     Ev("reseed", "trace_commitment", aux_index + 1, TRUE)>>
                  /\ aux_index' = aux_index + 1
                  /\ Goto("aux_segments")
             ELSE /\ public_coin' = r.coin
                  /\ log' = Append(log, Ev("draw", "aux_rand_elements", aux_index, FALSE))
                  /\ UNCHANGED <<aux_trace_rand_elements, aux_index>>
                  /\ Return("RandomCoinError")
    /\ UNCHANGED <<call, inputs, resolved, setup, trace_commitments, constraint_coeffs,
                   stage2, stage3, stage4, stage5, stage67, prev>>

\* Lines 164-166: the constraint composition coefficients.
DrawConstraintCoefficients ==
    /\ pc = "aux_segments"
    /\ aux_index >= AuxSegments(trace_commitments)
    /\ LET r == get_constraint_composition_coefficients(public_coin)
       IN /\ public_coin' = r.coin
          /\ log' = Append(log, Ev("draw", "constraint_coeffs", 0, r.ok))
          /\ IF r.ok
                THEN /\ constraint_coeffs' = r.values
                     /\ Goto("constraint_commitment")
                ELSE /\ UNCHANGED constraint_coeffs
                     /\ Return("RandomCoinError")
    /\ UNCHANGED <<call, inputs, resolved, setup, trace_commitments, aux_index,
                   aux_trace_rand_elements, stage2, stage3, stage4, stage5, stage67, prev>>

\* Lines 175 and 176 taken in the other order: z is drawn before the coin has
\* absorbed the constraint commitment.
ReadConstraintCommitmentAfterZ ==
    /\ pc = "constraint_commitment"
    /\ \E c \in ProofField("constraint_commitment", ConstraintCommitments) :
          /\ ReadProof("constraint_commitment", c)
          /\ constraint_commitment' = c
          /\ LET r == draw(public_coin)
             IN /\ public_coin' = reseed(r.coin, c)
                /\ log' = log \o <<Ev("read", "constraint_commitment", 0, TRUE),
                                   Ev("draw", "z", 0, r.ok),
                                   Ev("reseed", "constraint_commitment", 0, TRUE)>>
                /\ IF r.ok
                      THEN /\ z' = r.value
                           /\ Goto("ood_frame")
                      ELSE /\ UNCHANGED z
                           /\ Return("RandomCoinError")
    /\ UNCHANGED <<call, inputs, setup, stage1, stage3, stage4, stage5, stage67, prev>>

\* The constraint commitment taken from the channel ahead of the trace
\* commitments, and again at its own place.
ReadConstraintCommitmentFirst ==
    /\ pc \in {"trace_commitments", "constraint_commitment"}
    /\ pc = "trace_commitments" => constraint_commitment = 0
    /\ \E c \in ProofField("constraint_commitment", ConstraintCommitments) :
          /\ ReadProof("constraint_commitment", c)
          /\ constraint_commitment' = c
          /\ public_coin' = reseed(public_coin, c)
    /\ log' = log \o <<Ev("read", "constraint_commitment", 0, TRUE),
                       Ev("reseed", "constraint_commitment", 0, TRUE)>>
    /\ pc' = IF pc = "trace_commitments" THEN pc ELSE "draw_z"
    /\ UNCHANGED result
    /\ UNCHANGED <<call, inputs, setup, stage1, z, stage3, stage4, stage5, stage67, prev>>

\* Lines 174-175: the constraint commitment is read and absorbed.
ReadConstraintCommitment ==
    /\ pc = "constraint_commitment"
    /\ \E c \in ProofField("constraint_commitment", ConstraintCommitments) :
          /\ ReadProof("constraint_commitment", c)
          /\ constraint_commitment' = c
          /\ public_coin' = reseed(public_coin, c)
    /\ log' = log \o <<Ev("read", "constraint_commitment", 0, TRUE),
                       Ev("reseed", "constraint_commitment", 0, TRUE)>>
    /\ Goto("draw_z")
    /\ UNCHANGED <<call, inputs, setup, stage1, z, stage3, stage4, stage5, stage67, prev>>

\* The draw of z with its error dropped: the call goes on with the default.
DrawZUnchecked ==
    /\ pc = "draw_z"
    /\ LET r == draw(public_coin)
       IN /\ public_coin' = r.coin
          /\ log' = Append(log, Ev("draw", "z", 0, r.ok))
          /\ z' = r.value
          /\ Goto("ood_frame")
    /\ UNCHANGED <<call, inputs, resolved, setup, stage1, constraint_commitment, stage3,
                   stage4, stage5, stage67, prev>>

\* Lines 176-178: the out-of-domain point z.
DrawZ ==
    /\ pc = "draw_z"
    /\ LET r == draw(public_coin)
       IN /\ public_coin' = r.coin
          /\ log' = Append(log, Ev("draw", "z", 0, r.ok))
          /\ IF r.ok
                THEN /\ z' = r.value
                     /\ Goto("ood_frame")
                ELSE /\ UNCHANGED z
                     /\ Return("RandomCoinError")
    /\ UNCHANGED <<call, inputs, resolved, setup, stage1, constraint_commitment, stage3,
                   stage4, stage5, stage67, prev>>

\* Lines 187-195: the OOD frame is read and the constraints evaluated over it.
ReadOodTraceFrame ==
    /\ pc = "ood_frame"
    /\ \E mf \in ProofField("ood_main_trace_frame", MainFrames),
          af \in ProofField("ood_aux_trace_frame",
                            IF context.num_segments > 1 THEN AuxFrames ELSE {NoFrame}),
          e \in AirFact("ood_evaluation", Elements) :
          /\ proof' = [proof EXCEPT !.ood_main_trace_frame = mf, !.ood_aux_trace_frame = af]
          /\ air_facts' = [air_facts EXCEPT !.ood_evaluation = e]
          /\ known' = known \cup {"ood_main_trace_frame", "ood_aux_trace_frame",
                                  "ood_evaluation"}
          /\ ood_main_trace_frame' = mf
          /\ ood_aux_trace_frame' = af
          /\ aux_frame_present' = (context.num_segments > 1)
          /\ ood_constraint_evaluation_1' = e
    /\ log' = log \o <<Ev("read", "ood_trace_frame", 0, TRUE),
                       Ev("evaluate", "constraints", 0, TRUE)>>
    /\ Goto("reseed_ood_frame")
    /\ UNCHANGED <<call, inputs, public_coin, setup, stage1, stage2,
                   ood_constraint_evaluations, ood_constraint_evaluation_2, stage4,
                   stage5, stage67, prev>>

\* The rows put together the other way: auxiliary values first.
OodRowsAuxFirst(main, aux, present) ==
    IF present THEN <<aux.current \o main.current, aux.next \o main.next>>
    ELSE <<main.current, main.next>>

\* The rows the coin absorbs: main values first, auxiliary values after them.
OodRows(main, aux, present) ==
    IF present THEN <<main.current \o aux.current, main.next \o aux.next>>
    ELSE <<main.current, main.next>>

\* Lines 197-212: the coin absorbs the current row, then the next row.
ReseedOodFrame ==
    /\ pc = "reseed_ood_frame"
    /\ LET rows == OodRows(ood_main_trace_frame, ood_aux_trace_frame, aux_frame_present)
       IN /\ public_coin' = reseed(reseed(public_coin, hash_elements(rows[1])),
                                   hash_elements(rows[2]))
          /\ log' = log \o <<Ev("reseed", "ood_current_row", 0, TRUE),
                             Ev("reseed", "ood_next_row", 0, TRUE)>>
    /\ Goto("ood_evaluations")
    /\ UNCHANGED <<call, inputs, resolved, locals, prev>>

RECURSIVE exp_vartime(_, _)
exp_vartime(base, power) ==
    IF power = 0 THEN 1 ELSE (base * exp_vartime(base, power - 1)) % Modulus

\* The exponent taken one too high: the columns weighted z^1, z^2, ...
RECURSIVE OodFoldFromOne(_, _, _, _)
OodFoldFromOne(point, values, i, acc) ==
    IF i >= Len(values) THEN acc
    ELSE OodFoldFromOne(point, values, i + 1,
                        (acc + exp_vartime(point, i + 1) * values[i + 1]) % Modulus)

\* Lines 219-224: the fold sum(z^i * value_i) over the columns, i from 0.
RECURSIVE OodFold(_, _, _, _)
OodFold(point, values, i, acc) ==
    IF i >= Len(values) THEN acc
    ELSE OodFold(point, values, i + 1,
                 (acc + exp_vartime(point, i) * values[i + 1]) % Modulus)

ReduceOodEvaluations(point, values) == OodFold(point, values, 0, 0)

\* Lines 218-225: the OOD constraint evaluations are read, reduced and absorbed.
ReadOodConstraintEvaluations ==
    /\ pc = "ood_evaluations"
    /\ \E evals \in ProofField("ood_constraint_evaluations", OodEvaluationLists) :
          /\ ReadProof("ood_constraint_evaluations", evals)
          /\ ood_constraint_evaluations' = evals
          /\ ood_constraint_evaluation_2' = ReduceOodEvaluations(z, evals)
          /\ public_coin' = reseed(public_coin, hash_elements(evals))
          /\ log' = log \o <<Ev("read", "ood_constraint_evaluations", 0, TRUE),
                             Ev("reseed", "ood_constraint_evaluations", 0, TRUE)>>
    /\ Goto("ood_check")
    /\ UNCHANGED <<call, inputs, setup, stage1, stage2, ood_main_trace_frame,
                   ood_aux_trace_frame, aux_frame_present, ood_constraint_evaluation_1,
                   stage4, stage5, stage67, prev>>

\* The first evaluation compared with itself.
OodInconsistentSelf(evaluation_1, evaluation_2) == evaluation_1 # evaluation_1

\* Line 228: the two evaluations differ.
OodInconsistent(evaluation_1, evaluation_2) == evaluation_1 # evaluation_2

\* Lines 228-230: the consistency check.
CheckOodConsistency ==
    /\ pc = "ood_check"
    /\ IF OodInconsistent(ood_constraint_evaluation_1, ood_constraint_evaluation_2)
          THEN Return("InconsistentOodConstraintEvaluations")
          ELSE Goto("deep_coefficients")
    /\ UNCHANGED <<call, inputs, resolved, public_coin, locals, log, prev>>

\* A failed draw of the DEEP coefficients made good with zeros: the call goes on.
DrawDeepCoefficientsDefaulted ==
    /\ pc = "deep_coefficients"
    /\ LET r == get_deep_composition_coefficients(public_coin)
       IN /\ public_coin' = r.coin
          /\ log' = Append(log, Ev("draw", "deep_coefficients", 0, r.ok))
          /\ deep_coefficients' = IF r.ok THEN r.values ELSE <<0, 0>>
          /\ Goto("fri_new")
    /\ UNCHANGED <<call, inputs, resolved, setup, stage1, stage2, stage3, fri_verifier,
                   stage5, stage67, prev>>

\* Lines 237-239: the DEEP composition coefficients.
DrawDeepCoefficients ==
    /\ pc = "deep_coefficients"
    /\ LET r == get_deep_composition_coefficients(public_coin)
       IN /\ public_coin' = r.coin
          /\ log' = Append(log, Ev("draw", "deep_coefficients", 0, r.ok))
          /\ IF r.ok
                THEN /\ deep_coefficients' = r.values
                     /\ Goto("fri_new")
                ELSE /\ UNCHANGED deep_coefficients
                     /\ Return("RandomCoinError")
    /\ UNCHANGED <<call, inputs, resolved, setup, stage1, stage2, stage3, fri_verifier,
                   stage5, stage67, prev>>

\* Lines 248-255: the FRI verifier is built from the layer commitments; its
\* domain size is not compared with the AIR's.
NewFriVerifier ==
    /\ pc = "fri_new"
    /\ \E f \in ProofField("fri", FriProofs) :
          /\ ReadProof("fri", f)
          /\ LET r == FriVerifier_new(public_coin, f)
             IN /\ public_coin' = r.coin
                /\ IF r.ok
                      THEN /\ fri_verifier' = [built |-> TRUE, domain_size |-> r.domain_size]
                           /\ Goto("pow_nonce")
                      ELSE /\ UNCHANGED fri_verifier
                           /\ Return("FriVerificationFailed")
                /\ log' = Append(log, Ev("new", "fri_verifier", 0, r.ok))
    /\ UNCHANGED <<call, inputs, setup, stage1, stage2, stage3, deep_coefficients,
                   stage5, stage67, prev>>

\* Lines 259-260: the proof-of-work nonce is read and absorbed as an integer.
ReadPowNonce ==
    /\ pc = "pow_nonce"
    /\ \E n \in ProofField("pow_nonce", PowNonces) :
          /\ ReadProof("pow_nonce", n)
          /\ pow_nonce' = n
          /\ public_coin' = reseed_with_int(public_coin, n)
    /\ log' = log \o <<Ev("read", "pow_nonce", 0, TRUE),
                       Ev("reseed_with_int", "pow_nonce", 0, TRUE)>>
    /\ Goto("pow_check")
    /\ UNCHANGED <<call, inputs, setup, stage1, stage2, stage3, stage4, pow_zeros,
                   query_positions, stage67, prev>>

\* The comparison off by one: a nonce that just meets the factor is refused.
PowFailsAtThreshold(zeros, grinding_factor) == zeros <= grinding_factor

\* The comparison turned around: a nonce short of the factor passes.
PowFailsInverted(zeros, grinding_factor) == zeros > grinding_factor

\* Line 263: the leading zeros fall short of the grinding factor.
PowFails(zeros, grinding_factor) == zeros < grinding_factor

\* Lines 263-265: the proof-of-work check.
CheckProofOfWork ==
    /\ pc = "pow_check"
    /\ pow_zeros' = leading_zeros(public_coin)
    /\ IF PowFails(leading_zeros(public_coin), context.grinding_factor)
          THEN Return("QuerySeedProofOfWorkVerificationFailed")
          ELSE Goto("query_positions")
    /\ UNCHANGED <<call, inputs, resolved, public_coin, setup, stage1, stage2, stage3,
                   stage4, pow_nonce, query_positions, stage67, log, prev>>

\* The positions drawn against the FRI verifier's domain instead of the AIR's.
QueryPositionsDrawFriDomain(coin, ctx) ==
    draw_integers(coin, ctx.num_queries, fri_verifier.domain_size)

\* Lines 271-272: draw_integers(num_queries, lde_domain_size) on the coin.
QueryPositionsDraw(coin, ctx) == draw_integers(coin, ctx.num_queries, ctx.lde_domain_size)

\* Lines 271-273: the query positions.
DrawQueryPositions ==
    /\ pc = "query_positions"
    /\ LET r == QueryPositionsDraw(public_coin, context)
       IN /\ public_coin' = r.coin
          /\ log' = Append(log, Ev("draw", "query_positions", 0, r.ok))
          /\ IF r.ok
                THEN /\ query_positions' = r.values
                     /\ Goto("trace_queries")
                ELSE /\ UNCHANGED query_positions
                     /\ Return("RandomCoinError")
    /\ UNCHANGED <<call, inputs, resolved, setup, stage1, stage2, stage3, stage4,
                   pow_nonce, pow_zeros, stage67, prev>>

\* Lines 277-278: the queried trace states are read and checked against the
\* trace commitments.
ReadQueriedTraceStates ==
    /\ pc = "trace_queries"
    /\ \E ok \in ProofField("trace_queries_ok", BOOLEAN) :
          /\ ReadProof("trace_queries_ok", ok)
          /\ IF ok
                THEN /\ queried_trace_states' =
                            [k \in 1 .. Len(query_positions) |->
                                TraceStateAt(query_positions[k])]
                     /\ Goto("constraint_queries")
                ELSE /\ UNCHANGED queried_trace_states
                     /\ Return("TraceQueryDoesNotMatchCommitment")
          /\ log' = Append(log, Ev("read", "queried_trace_states", 0, ok))
    /\ position_uses' = Append(position_uses,
                                Use("read_queried_trace_states", query_positions))
    /\ UNCHANGED <<call, inputs, public_coin, setup, stage1, stage2, stage3, stage4,
                   stage5, queried_constraint_evaluations, deep_evaluations, composer,
                   prev>>

\* Line 279: the queried constraint evaluations are read and checked against
\* the constraint commitment.
ReadConstraintEvaluations ==
    /\ pc = "constraint_queries"
    /\ \E ok \in ProofField("constraint_queries_ok", BOOLEAN) :
          /\ ReadProof("constraint_queries_ok", ok)
          /\ IF ok
                THEN /\ queried_constraint_evaluations' =
                            [k \in 1 .. Len(query_positions) |->
                                ConstraintEvaluationAt(query_positions[k])]
                     /\ Goto("compose")
                ELSE /\ UNCHANGED queried_constraint_evaluations
                     /\ Return("ConstraintQueryDoesNotMatchCommitment")
          /\ log' = Append(log, Ev("read", "constraint_evaluations", 0, ok))
    /\ position_uses' = Append(position_uses,
                                Use("read_constraint_evaluations", query_positions))
    /\ UNCHANGED <<call, inputs, public_coin, setup, stage1, stage2, stage3, stage4,
                   stage5, queried_trace_states, deep_evaluations, composer, prev>>

SumSeq(s) == LET RECURSIVE Sum(_)
                 Sum(k) == IF k = 0 THEN 0 ELSE s[k] + Sum(k - 1)
             IN Sum(Len(s))

Sub(a, b) == (a + Modulus - (b % Modulus)) % Modulus

\* DeepComposer: one value per query position out of the queried values, the
\* OOD frame and evaluations, z and the DEEP coefficients (the quotients by
\* x - z and x - g*z are left to the FRI verdict, which the proof decides).
DeepCompose(positions, point, coefficients, trace_states, evaluations, rows, ood) ==
    [k \in 1 .. Len(positions) |->
        (coefficients[1] * Sub(trace_states[k], SumSeq(rows[1]))
         + coefficients[1] * Sub(trace_states[k], SumSeq(rows[2]))
         + coefficients[2] * Sub(evaluations[k], ReduceOodEvaluations(point, ood))) % Modulus]

\* Line 283: DeepComposer::new(&air, &query_positions, z, deep_coefficients)
DeepComposer_new(positions, point, coefficients) ==
    [built |-> TRUE, query_positions |-> positions, z |-> point, cc |-> coefficients]

\* The composer built over positions drawn afresh from the coin.
ComposeDeepRedrawn ==
    /\ pc = "compose"
    /\ LET again == QueryPositionsDraw(public_coin, context).values
       IN /\ composer' = DeepComposer_new(again, z, deep_coefficients)
          /\ deep_evaluations' =
                DeepCompose(composer'.query_positions, composer'.z, composer'.cc,
                            queried_trace_states, queried_constraint_evaluations,
                            OodRows(ood_main_trace_frame, ood_aux_trace_frame,
                                    aux_frame_present),
                            ood_constraint_evaluations)
          /\ position_uses' = Append(position_uses, Use("DeepComposer", again))
    /\ log' = Append(log, Ev("compose", "deep_evaluations", 0, TRUE))
    /\ Goto("fri_verify")
    /\ UNCHANGED <<call, inputs, resolved, public_coin, setup, stage1, stage2, stage3,
                   stage4, stage5, queried_trace_states, queried_constraint_evaluations,
                   prev>>

\* Lines 283-292: the DEEP composition at the query positions.
ComposeDeep ==
    /\ pc = "compose"
    /\ composer' = DeepComposer_new(query_positions, z, deep_coefficients)
    /\ deep_evaluations' =
          DeepCompose(composer'.query_positions, composer'.z, composer'.cc,
                      queried_trace_states, queried_constraint_evaluations,
                      OodRows(ood_main_trace_frame, ood_aux_trace_frame, aux_frame_present),
                      ood_constraint_evaluations)
    /\ position_uses' = Append(position_uses, Use("DeepComposer", query_positions))
    /\ log' = Append(log, Ev("compose", "deep_evaluations", 0, TRUE))
    /\ Goto("fri_verify")
    /\ UNCHANGED <<call, inputs, resolved, public_coin, setup, stage1, stage2, stage3,
                   stage4, stage5, queried_trace_states, queried_constraint_evaluations,
                   prev>>

\* The FRI verifier's answer dropped.
FriVerdictIgnored(accepted) == "Ok"

\* Lines 297-299: the FRI verifier's answer, mapped to the call's result.
FriVerdict(accepted) == IF accepted THEN "Ok" ELSE "FriVerificationFailed"

\* Lines 297-299: the low-degree test; its verdict is the call's result.
FriVerify ==
    /\ pc = "fri_verify"
    /\ \E ok \in ProofField("fri_queries_ok", BOOLEAN) :
          /\ ReadProof("fri_queries_ok", ok)
          /\ Return(FriVerdict(ok))
          /\ log' = Append(log, Ev("verify", "fri_verifier", 0, ok))
    /\ position_uses' = Append(position_uses, Use("fri_verifier.verify", query_positions))
    /\ UNCHANGED <<call, inputs, public_coin, setup, stage1, stage2, stage3, stage4,
                   stage5, queried_trace_states, queried_constraint_evaluations,
                   deep_evaluations, composer, prev>>

Next ==
    \/ Verify
    \/ MakeSeed
    \/ CheckExtension
    \/ NewCoin
    \/ NewChannel
    \/ ReadTraceCommitments
    \/ ReseedMainCommitment
    \/ AuxSegment
    \/ DrawConstraintCoefficients
    \/ ReadConstraintCommitment
    \/ DrawZ
    \/ ReadOodTraceFrame
    \/ ReseedOodFrame
    \/ ReadOodConstraintEvaluations
    \/ CheckOodConsistency
    \/ DrawDeepCoefficients
    \/ NewFriVerifier
    \/ ReadPowNonce
    \/ CheckProofOfWork
    \/ DrawQueryPositions
    \/ ReadQueriedTraceStates
    \/ ReadConstraintEvaluations
    \/ ComposeDeep
    \/ FriVerify

Spec == Init /\ [][Next]_vars

\* The call runs to its end: no step of it waits on anything.
FairSpec == Spec /\ WF_vars(Next)

\* ------------------------------------------ the reduction of lines 218-230


\* The columns the prover may send: any field elements.
FoldColumnLists == SeqsUpTo(Elements, MaxFoldColumns)

\* The call stands at line 218: z is some field element, the evaluator has
\* returned some field element, and the proof holds some list of columns.
FoldInit ==
    /\ pc = "ood_evaluations"
    /\ call = 1
    /\ result = "none"
    /\ pub_inputs = 1
    /\ context = [field_extension |-> "None", num_segments |-> 1, grinding_factor |-> 0,
                  num_queries |-> 1, lde_domain_size |-> 2]
    /\ \E columns \in FoldColumnLists :
          proof = [UnreadProof EXCEPT !.ood_constraint_evaluations = columns]
    /\ air_facts = UnaskedAir
    /\ known = {"ood_constraint_evaluations"}
    /\ public_coin = NoCoin
    /\ public_coin_seed = <<>>
    /\ channel = TRUE
    /\ trace_commitments = <<1>>
    /\ aux_index = 0
    /\ aux_trace_rand_elements = <<>>
    /\ constraint_coeffs = <<>>
    /\ constraint_commitment = 0
    /\ z \in Elements
    /\ ood_main_trace_frame = NoFrame
    /\ ood_aux_trace_frame = NoFrame
    /\ aux_frame_present = FALSE
    /\ ood_constraint_evaluation_1 \in Elements
    /\ ood_constraint_evaluations = <<>>
    /\ ood_constraint_evaluation_2 = 0
    /\ deep_coefficients = <<>>
    /\ fri_verifier = NoFri
    /\ pow_nonce = 0
    /\ pow_zeros = 0
    /\ query_positions = <<>>
    /\ queried_trace_states = <<>>
    /\ queried_constraint_evaluations = <<>>
    /\ deep_evaluations = <<>>
    /\ composer = NoComposer
    /\ position_uses = <<>>
    /\ log = <<>>
    /\ prev = NoSnapshot

FoldNext ==
    \/ ReadOodConstraintEvaluations
    \/ CheckOodConsistency

\* Lines 218-230 over every z, every evaluator result and every list of columns.
FoldSpec == FoldInit /\ [][FoldNext]_vars

\* ============================================================== properties

Done == pc = "done"

\* The operation was performed in the current call.
Did(op, obj) == \E k \in 1 .. Len(log) : log[k].op = op /\ log[k].obj = obj
DidWith(op, obj, ok) ==
    \E k \in 1 .. Len(log) : log[k].op = op /\ log[k].obj = obj /\ log[k].ok = ok

Op(op, obj, idx) == <<op, obj, idx>>
LogOps == [k \in 1 .. Len(log) |-> Op(log[k].op, log[k].obj, log[k].idx)]

IsPrefix(a, b) == Len(a) <= Len(b) /\ \A k \in 1 .. Len(a) : a[k] = b[k]

RECURSIVE AuxOps(_, _)
AuxOps(i, n) ==
    IF i >= n - 1 THEN <<>>
    ELSE <<Op("draw", "aux_rand_elements", i), Op("reseed", "trace_commitment", i + 1)>>
         \o AuxOps(i + 1, n)

\* The operations of a call that runs to the low-degree test, over a trace of
\* n segments, in protocol order.
FullTrace(n) ==
    <<Op("new", "coin", 0), Op("new", "channel", 0),
      Op("read", "trace_commitments", 0), Op("reseed", "trace_commitment", 0)>>
    \o AuxOps(0, n)
    \o <<Op("draw", "constraint_coeffs", 0),
         Op("read", "constraint_commitment", 0), Op("reseed", "constraint_commitment", 0),
         Op("draw", "z", 0),
         Op("read", "ood_trace_frame", 0), Op("evaluate", "constraints", 0),
         Op("reseed", "ood_current_row", 0), Op("reseed", "ood_next_row", 0),
         Op("read", "ood_constraint_evaluations", 0),
         Op("reseed", "ood_constraint_evaluations", 0),
         Op("draw", "deep_coefficients", 0), Op("new", "fri_verifier", 0),
         Op("read", "pow_nonce", 0), Op("reseed_with_int", "pow_nonce", 0),
         Op("draw", "query_positions", 0),
         Op("read", "queried_trace_states", 0), Op("read", "constraint_evaluations", 0),
         Op("compose", "deep_evaluations", 0), Op("verify", "fri_verifier", 0)>>

UnsupportedErrors == {"UnsupportedFieldExtension(2)", "UnsupportedFieldExtension(3)"}
PowError == "QuerySeedProofOfWorkVerificationFailed"
OodError == "InconsistentOodConstraintEvaluations"

\* What the inputs say about each check, whatever the verifier made of it.
ExtensionIsSupported ==
    /\ context.field_extension = "Quadratic" => air_facts.quad_supported
    /\ context.field_extension = "Cubic" => air_facts.cube_supported
ShapeIsConsistent ==
    proof.well_sized /\ Len(proof.trace_commitments) = context.num_segments
OodEvaluationsAgree == ood_constraint_evaluation_1 = ood_constraint_evaluation_2
\* The coin's seed is last changed by the nonce: its zeros are those the check saw.
NonceMeetsGrinding == leading_zeros(public_coin) >= context.grinding_factor

\* C1: verify returns Ok only if, in that call, the extension is supported, the
\* channel was built, every draw succeeded, the two OOD evaluations agree, the
\* leading zeros after the nonce reach the grinding factor, both opening reads
\* verified and the FRI verifier was built and accepted; no check is skipped.
C1_OkOnlyIfEveryCheckPassed ==
    result = "Ok" =>
        /\ Done
        /\ ExtensionIsSupported
        /\ channel /\ ShapeIsConsistent
        /\ LogOps = FullTrace(context.num_segments)
        /\ \A k \in 1 .. Len(log) : log[k].ok
        /\ Len(aux_trace_rand_elements) = context.num_segments - 1
        /\ OodEvaluationsAgree
        /\ NonceMeetsGrinding
        /\ proof.trace_queries_ok /\ proof.constraint_queries_ok
        /\ proof.fri.ok /\ fri_verifier.built /\ proof.fri_queries_ok

C1_Witness ==
    /\ Done /\ result = "Ok"
    /\ context.num_segments = 2 /\ context.grinding_factor = 1

\* A check whose input the call has read, and which that input fails.
RevealedBad ==
    \/ ~ExtensionIsSupported
    \/ "trace_commitments" \in known /\ ~ShapeIsConsistent
    \/ \E k \in 1 .. Len(log) : ~log[k].ok
    \/ Did("reseed", "ood_constraint_evaluations") /\ ~OodEvaluationsAgree
    \/ Did("reseed_with_int", "pow_nonce") /\ ~NonceMeetsGrinding

\* C2: every call ends, and a call over a proof none of whose checks fails
\* (supported extension, consistent shape, successful draws, agreeing OOD
\* evaluations, sufficient proof of work, verified openings, accepting FRI)
\* ends in Ok, whatever the field extension; a call that reaches the
\* low-degree test returns exactly its verdict.
C2_HonestProofAccepted ==
    (pc = "seed") ~>
        (/\ Done
         /\ ~RevealedBad => result = "Ok"
         /\ Did("verify", "fri_verifier") => (result = "Ok" <=> proof.fri_queries_ok))

C2_Witness == Done /\ result = "Ok" /\ ~RevealedBad /\ context.field_extension = "Cubic"

ErrorOfFailedOp(e) ==
    CASE e.op = "draw" -> "RandomCoinError"
      [] e.obj = "fri_verifier" -> "FriVerificationFailed"
      [] e.obj = "queried_trace_states" -> "TraceQueryDoesNotMatchCommitment"
      [] e.obj = "constraint_evaluations" -> "ConstraintQueryDoesNotMatchCommitment"
      [] OTHER -> "none"

LastOp == IF log = <<>> THEN Op("none", "none", 0) ELSE LogOps[Len(log)]

\* C3: the operations of a call are a prefix of the protocol order (no stage
\* is repeated or re-entered); nothing follows a failed operation or a failed
\* check; and the error returned is that of the stage at which the call
\* stopped, every earlier check having passed.
C3_FirstFailureIsFinal ==
    /\ IsPrefix(LogOps, FullTrace(context.num_segments))
    /\ \A k \in 1 .. Len(log) - 1 : log[k].ok
    /\ (log # <<>> /\ ~log[Len(log)].ok) =>
            Done /\ result = ErrorOfFailedOp(log[Len(log)])
    /\ Did("new", "coin") => ExtensionIsSupported
    /\ Did("new", "channel") => ShapeIsConsistent
    /\ Did("draw", "deep_coefficients") => OodEvaluationsAgree
    /\ Did("draw", "query_positions") => NonceMeetsGrinding
    /\ result \in UnsupportedErrors => log = <<>> /\ ~ExtensionIsSupported
    /\ result = "ProofDeserializationError" =>
            LogOps = <<Op("new", "coin", 0)>> /\ ~ShapeIsConsistent
    /\ result = OodError =>
            LastOp = Op("reseed", "ood_constraint_evaluations", 0) /\ ~OodEvaluationsAgree
    /\ result = PowError =>
            LastOp = Op("reseed_with_int", "pow_nonce", 0) /\ ~NonceMeetsGrinding
    /\ result \in {"RandomCoinError", "FriVerificationFailed",
                   "TraceQueryDoesNotMatchCommitment",
                   "ConstraintQueryDoesNotMatchCommitment"} =>
            log # <<>> /\ ~log[Len(log)].ok

C3_Witness ==
    /\ Done /\ result = "RandomCoinError"
    /\ LastOp = Op("draw", "z", 0)

QueryPhaseDone ==
    \/ Did("draw", "deep_coefficients")
    \/ Did("new", "fri_verifier")
    \/ Did("read", "pow_nonce")
    \/ Did("reseed_with_int", "pow_nonce")
    \/ Did("draw", "query_positions")
    \/ Did("read", "queried_trace_states")
    \/ Did("read", "constraint_evaluations")
    \/ Did("verify", "fri_verifier")

\* C4: once the OOD constraint evaluations are absorbed and the check is past,
\* two differing evaluations mean the call has ended with the inconsistency
\* error, and no DEEP coefficient was drawn, no FRI verifier built, no nonce
\* read, no query position drawn and no opening read.
C4_OodMismatchRejectedBeforeQueries ==
    (Did("reseed", "ood_constraint_evaluations") /\ pc # "ood_check"
        /\ ~OodEvaluationsAgree) =>
        /\ Done
        /\ result = OodError
        /\ ~QueryPhaseDone
        /\ query_positions = <<>> /\ deep_coefficients = <<>> /\ ~fri_verifier.built

C4_Witness ==
    /\ Done /\ result = OodError
    /\ ood_constraint_evaluation_2 =
           ReduceOodEvaluations(z, proof.ood_constraint_evaluations)
    /\ ood_constraint_evaluation_1 # ood_constraint_evaluation_2
    /\ Len(ood_constraint_evaluations) = 2

\* C5: once the nonce is absorbed and the check is past, the call has ended
\* with the proof-of-work error exactly when the coin's leading zeros are fewer
\* than the grinding factor; it ends so before any query position is drawn or
\* opening read; and with a grinding factor of zero it never ends so.
C5_GrindingEnforced ==
    /\ (Did("reseed_with_int", "pow_nonce") /\ pc # "pow_check") =>
            ((Done /\ result = PowError) <=> ~NonceMeetsGrinding)
    /\ result = PowError =>
            /\ ~Did("draw", "query_positions")
            /\ ~Did("read", "queried_trace_states")
            /\ ~Did("read", "constraint_evaluations")
            /\ query_positions = <<>>
    /\ context.grinding_factor = 0 => result # PowError

C5_Witness ==
    /\ Done /\ result = PowError
    /\ leading_zeros(public_coin) < context.grinding_factor

\* C6: a call ends with the unsupported-extension error of degree 2 (3) exactly
\* when the AIR declares the quadratic (cubic) extension and the base field
\* lacks it; it does so before the coin or the channel exists and before any
\* reseed, draw or read; with no extension declared it never does.
C6_ExtensionGating ==
    /\ Done => /\ result = "UnsupportedFieldExtension(2)" <=>
                    (context.field_extension = "Quadratic" /\ ~air_facts.quad_supported)
               /\ result = "UnsupportedFieldExtension(3)" <=>
                    (context.field_extension = "Cubic" /\ ~air_facts.cube_supported)
    /\ result \in UnsupportedErrors =>
            log = <<>> /\ public_coin = NoCoin /\ ~channel
    /\ context.field_extension = "None" => result \notin UnsupportedErrors

C6_Witness ==
    /\ Done /\ result = "UnsupportedFieldExtension(3)"
    /\ context.field_extension = "Cubic"

\* C7: a second call over the same proof and public inputs performs the same
\* operations in the same order, derives the same auxiliary random elements,
\* coefficients, z and query positions, and returns the same result.
C7_TranscriptDeterminism ==
    /\ call >= 2 => IsPrefix(log, prev.log)
    /\ (call >= 2 /\ Done) => Snapshot = prev

C7_Witness ==
    /\ call = 2 /\ Done /\ result = "Ok"
    /\ query_positions # <<>> /\ prev.query_positions = query_positions

TypedResults ==
    {"Ok", "ProofDeserializationError", "RandomCoinError", OodError, PowError,
     "FriVerificationFailed", "TraceQueryDoesNotMatchCommitment",
     "ConstraintQueryDoesNotMatchCommitment"} \cup UnsupportedErrors

\* C8: no call aborts: whatever the proof (an empty list of trace
\* commitments, missing or mis-sized OOD frame, evaluations or nonce), the
\* call ends in Ok or in one of the typed errors.
C8_NeverPanics ==
    /\ pc # "panicked"
    /\ result # "panic"
    /\ Done => result \in TypedResults

C8_Witness ==
    /\ Done /\ "trace_commitments" \in known
    /\ proof.trace_commitments = <<>>
    /\ result = "ProofDeserializationError"

\* C9: a proof whose FRI verifier has a domain size other than the AIR's LDE
\* domain size is never accepted, and query positions are never drawn against
\* a bound other than the FRI verifier's domain size.
C9_DomainSizesAgree ==
    /\ result = "Ok" => fri_verifier.domain_size = context.lde_domain_size
    /\ Did("draw", "query_positions") =>
            fri_verifier.domain_size = context.lde_domain_size

\* C10: when the draw of the query positions succeeds there are exactly
\* num_queries of them, distinct and all below the LDE domain size, and the
\* call never goes on with fewer; when it fails the call has ended with the
\* random coin error and without positions.
C10_QueryPositionsCountAndBound ==
    /\ DidWith("draw", "query_positions", TRUE) =>
            /\ Len(query_positions) = context.num_queries
            /\ Cardinality(SeqToSet(query_positions)) = context.num_queries
            /\ \A k \in 1 .. Len(query_positions) :
                    query_positions[k] \in 0 .. context.lde_domain_size - 1
    /\ DidWith("draw", "query_positions", FALSE) =>
            Done /\ result = "RandomCoinError" /\ query_positions = <<>>
    /\ (Did("read", "queried_trace_states") \/ result = "Ok") =>
            Len(query_positions) = context.num_queries

C10_Witness ==
    /\ DidWith("draw", "query_positions", TRUE)
    /\ Len(query_positions) = 2
    /\ context.num_queries = 2

\* ------------------------------------------------------------ channel reads

\* The reads of the channel in the current call, in the order they happened;
\* building the FRI verifier is the read of the FRI layer commitments.
ChannelReads ==
    SelectSeq(log, LAMBDA e : e.op = "read" \/ (e.op = "new" /\ e.obj = "fri_verifier"))

ReadOrder ==
    <<"trace_commitments", "constraint_commitment", "ood_trace_frame",
      "ood_constraint_evaluations", "fri_verifier", "pow_nonce",
      "queried_trace_states", "constraint_evaluations">>

\* C11: the channel reads of a call are an initial part of the fixed order
\* (trace commitments, constraint commitment, OOD frame, OOD constraint
\* evaluations, FRI layer commitments, nonce, queried trace states, queried
\* constraint evaluations): none is repeated and none comes before an earlier
\* one; and what a read returned is what the proof holds.
C11_ReadsInProtocolOrder ==
    LET reads == ChannelReads
    IN /\ Len(reads) <= Len(ReadOrder)
       /\ \A k \in 1 .. Len(reads) : reads[k].obj = ReadOrder[k]
       /\ Did("read", "trace_commitments") => trace_commitments = proof.trace_commitments
       /\ Did("read", "constraint_commitment") =>
               constraint_commitment = proof.constraint_commitment
       /\ Did("read", "ood_constraint_evaluations") =>
               ood_constraint_evaluations = proof.ood_constraint_evaluations
       /\ Did("read", "pow_nonce") => pow_nonce = proof.pow_nonce

C11_Witness ==
    /\ Len(ChannelReads) = Len(ReadOrder)
    /\ Did("verify", "fri_verifier")
    /\ context.num_segments = 2

\* ------------------------------------------------------- structural errors

StructuralError == "ProofDeserializationError"

\* No stage of perform_verification has left a value behind.
NothingDerived ==
    /\ trace_commitments = <<>> /\ aux_trace_rand_elements = <<>>
    /\ constraint_coeffs = <<>> /\ constraint_commitment = 0 /\ z = 0
    /\ ood_main_trace_frame = NoFrame /\ ood_constraint_evaluations = <<>>
    /\ deep_coefficients = <<>> /\ ~fri_verifier.built
    /\ pow_zeros = 0 /\ query_positions = <<>> /\ deep_evaluations = <<>>

\* C12: a proof whose shape does not match its context ends the call, at the
\* construction of the channel, with the structural error; and a call that
\* ends so has only created the coin: no reseed, no draw, no read, no OOD
\* comparison, no proof-of-work check and no FRI step, the coin still being
\* the one made from the seed.
C12_StructuralErrorBeforeAnyCheck ==
    /\ (Did("new", "coin") /\ pc # "channel" /\ ~ShapeIsConsistent) =>
            Done /\ result = StructuralError
    /\ result = StructuralError =>
            /\ Done /\ ~channel /\ ~ShapeIsConsistent
            /\ LogOps = <<Op("new", "coin", 0)>>
            /\ public_coin = RandomCoin_new(public_coin_seed)
            /\ NothingDerived

C12_Witness ==
    /\ Done /\ result = StructuralError
    /\ ~proof.well_sized
    /\ Len(proof.trace_commitments) = context.num_segments

\* ------------------------------------------------------------------ stage 1

\* The operations of stage 1 over a trace of n segments, up to the read of the
\* constraint commitment.
Stage1Ops(n) ==
    <<Op("new", "coin", 0), Op("new", "channel", 0),
      Op("read", "trace_commitments", 0), Op("reseed", "trace_commitment", 0)>>
    \o AuxOps(0, n)
    \o <<Op("draw", "constraint_coeffs", 0), Op("read", "constraint_commitment", 0)>>

\* Stage1Ops for each number of segments a context can declare.
Stage1OpsBy == [n \in 1 .. MaxSegments |-> Stage1Ops(n)]

\* The logged operation is the operation o.
EventIs(e, o) == e.op = o[1] /\ e.obj = o[2] /\ e.idx = o[3]

\* From its entry `from` on, the log goes as ops goes, as far as both go.
LogFollows(ops, from) ==
    \A k \in from .. Len(log) :
        k - from + 1 <= Len(ops) => EventIs(log[k], ops[k - from + 1])

\* The transcript of stage 1 once k auxiliary segments are through: the coin
\* has absorbed the commitments of segments 0..k, and segment j's random
\* elements were drawn when it had absorbed those of segments 0..j-1 only.
RECURSIVE Stage1After(_, _)
Stage1After(commitments, k) ==
    IF k = 0
    THEN [coin |-> reseed(RandomCoin_new(public_coin_seed), commitments[1]),
          elements |-> <<>>]
    ELSE LET before == Stage1After(commitments, k - 1)
             r == get_aux_trace_segment_random_elements(k - 1, before.coin)
         IN [coin |-> reseed(r.coin, commitments[k + 1]),
             elements |-> Append(before.elements, r.values)]

\* C13: the coin first absorbs the main trace commitment; each auxiliary
\* segment's random elements are drawn from the coin that has absorbed the
\* commitments of the segments before it only, and that segment's commitment
\* is absorbed right after; the constraint composition coefficients are drawn
\* from the coin that has absorbed every trace commitment, before the
\* constraint commitment is read.
C13_StageOneOrdering ==
    LET drawn == Stage1After(trace_commitments, Len(aux_trace_rand_elements))
        coeffs == get_constraint_composition_coefficients(drawn.coin)
    IN /\ LogFollows(Stage1OpsBy[context.num_segments], 1)
       /\ pc = "reseed_main" => public_coin = RandomCoin_new(public_coin_seed)
       /\ pc = "aux_segments" =>
               /\ aux_index = Len(aux_trace_rand_elements)
               /\ public_coin = drawn.coin
       /\ aux_trace_rand_elements # <<>> => aux_trace_rand_elements = drawn.elements
       /\ Did("draw", "constraint_coeffs") =>
               Len(aux_trace_rand_elements) = Len(trace_commitments) - 1
       /\ DidWith("draw", "constraint_coeffs", TRUE) => constraint_coeffs = coeffs.values
       /\ pc = "constraint_commitment" => public_coin = coeffs.coin

C13_Witness ==
    /\ DidWith("draw", "constraint_coeffs", TRUE)
    /\ Len(trace_commitments) = 2
    /\ Len(aux_trace_rand_elements) = 1
    /\ Did("read", "constraint_commitment")

\* ------------------------------------------------- randomness and absorption

\* The coin's operations from stage 2 on, in the order the protocol binds them.
BindingOrder ==
    <<Op("read", "constraint_commitment", 0), Op("reseed", "constraint_commitment", 0),
      Op("draw", "z", 0),
      Op("read", "ood_trace_frame", 0), Op("evaluate", "constraints", 0),
      Op("reseed", "ood_current_row", 0), Op("reseed", "ood_next_row", 0),
      Op("read", "ood_constraint_evaluations", 0),
      Op("reseed", "ood_constraint_evaluations", 0),
      Op("draw", "deep_coefficients", 0), Op("new", "fri_verifier", 0),
      Op("read", "pow_nonce", 0), Op("reseed_with_int", "pow_nonce", 0),
      Op("draw", "query_positions", 0)>>

\* Where stage 2 begins in the log of a call over a trace of n segments.
Stage2Begins == [n \in 1 .. MaxSegments |-> Len(Stage1Ops(n))]

\* The transcript replayed from what the proof holds, stage by stage.
CoinAfterStage1 ==
    get_constraint_composition_coefficients(
        Stage1After(trace_commitments, Len(trace_commitments) - 1).coin).coin
CoinBeforeZ == reseed(CoinAfterStage1, proof.constraint_commitment)
CoinAfterZ == draw(CoinBeforeZ).coin
\* The coin once it has absorbed the two rows of the OOD frame, main values
\* first, and the OOD constraint evaluations.
OodAbsorbed(coin) ==
    reseed(reseed(reseed(coin,
                         hash_elements(IF aux_frame_present
                                       THEN proof.ood_main_trace_frame.current
                                                \o proof.ood_aux_trace_frame.current
                                       ELSE proof.ood_main_trace_frame.current)),
                  hash_elements(IF aux_frame_present
                                THEN proof.ood_main_trace_frame.next
                                         \o proof.ood_aux_trace_frame.next
                                ELSE proof.ood_main_trace_frame.next)),
           hash_elements(proof.ood_constraint_evaluations))
CoinAfterOod == OodAbsorbed(CoinAfterZ)
CoinAfterDeep == get_deep_composition_coefficients(CoinAfterOod).coin
CoinAfterFri == FriVerifier_new(CoinAfterDeep, proof.fri).coin
CoinAfterNonce == reseed_with_int(CoinAfterFri, proof.pow_nonce)

\* C14: from stage 2 on the coin's operations go in this order: absorb the
\* constraint commitment, draw z, absorb the OOD rows and the OOD constraint
\* evaluations, draw the DEEP coefficients, let the FRI verifier absorb its
\* layer commitments, absorb the nonce, draw the query positions. z is drawn
\* from the coin that has absorbed the constraint commitment and not yet the
\* OOD frame; the DEEP coefficients from the coin that has absorbed the OOD
\* frame and evaluations and not yet a layer commitment; the query positions
\* from the coin that has been through the FRI commit phase and absorbed the
\* nonce, and only when its leading zeros meet the grinding factor.
C14_RandomnessAfterBinding ==
    LET before_z == CoinBeforeZ
        z_draw == draw(before_z)
        after_ood == OodAbsorbed(z_draw.coin)
        deep_draw == get_deep_composition_coefficients(after_ood)
        after_fri == FriVerifier_new(deep_draw.coin, proof.fri).coin
        after_nonce == reseed_with_int(after_fri, proof.pow_nonce)
    IN /\ LogFollows(BindingOrder, Stage2Begins[context.num_segments])
       /\ pc = "draw_z" => public_coin = before_z
       /\ DidWith("draw", "z", TRUE) => z = z_draw.value
       /\ pc \in {"ood_frame", "reseed_ood_frame"} => public_coin = z_draw.coin
       /\ pc = "deep_coefficients" => public_coin = after_ood
       /\ DidWith("draw", "deep_coefficients", TRUE) => deep_coefficients = deep_draw.values
       /\ pc = "fri_new" => public_coin = deep_draw.coin
       /\ pc = "pow_nonce" => public_coin = after_fri
       /\ pc \in {"pow_check", "query_positions"} => public_coin = after_nonce
       /\ Did("draw", "query_positions") =>
               /\ DidWith("new", "fri_verifier", TRUE)
               /\ DidWith("reseed_with_int", "pow_nonce", TRUE)
               /\ pow_zeros >= context.grinding_factor
       /\ pc = "query_positions" => pow_zeros = leading_zeros(after_nonce)
       /\ DidWith("draw", "query_positions", TRUE) =>
               query_positions =
                   draw_integers(after_nonce, context.num_queries,
                                 context.lde_domain_size).values

C14_Witness ==
    /\ pc = "trace_queries"
    /\ DidWith("draw", "query_positions", TRUE)
    /\ context.grinding_factor = 1
    /\ aux_frame_present

\* ------------------------------------------------------------------ stage 3

Stage3Ops ==
    <<Op("read", "ood_trace_frame", 0), Op("evaluate", "constraints", 0),
      Op("reseed", "ood_current_row", 0), Op("reseed", "ood_next_row", 0),
      Op("read", "ood_constraint_evaluations", 0),
      Op("reseed", "ood_constraint_evaluations", 0)>>

\* Where stage 3 begins in the log of the current call.
Stage3Begins == Stage2Begins[context.num_segments] + 3

StageThreeOver == pc = "ood_check" \/ Did("draw", "deep_coefficients") \/ result = OodError

\* C15: from the read of the OOD frame to the comparison the call evaluates
\* the constraints, absorbs the hash of the current row, then of the next row,
\* reads the OOD constraint evaluations and absorbs their hash: three reseeds,
\* in that order. The evaluation leaves the coin as the draw of z left it.
\* Each row is the main values followed by the auxiliary values when the trace
\* has auxiliary segments, the main values alone otherwise. The three reseeds
\* have happened when the comparison is made, whichever way it goes.
C15_StageThreeReseeds ==
    /\ LogFollows(Stage3Ops, Stage3Begins)
    /\ Did("read", "ood_trace_frame") =>
            /\ Len(log) >= Stage3Begins
            /\ aux_frame_present = (Len(trace_commitments) > 1)
    /\ pc = "reseed_ood_frame" => public_coin = CoinAfterZ
    /\ pc = "ood_evaluations" =>
            public_coin =
                IF aux_frame_present
                THEN reseed(reseed(CoinAfterZ,
                                   hash_elements(ood_main_trace_frame.current
                                                    \o ood_aux_trace_frame.current)),
                            hash_elements(ood_main_trace_frame.next
                                             \o ood_aux_trace_frame.next))
                ELSE reseed(reseed(CoinAfterZ, hash_elements(ood_main_trace_frame.current)),
                            hash_elements(ood_main_trace_frame.next))
    /\ StageThreeOver => Len(log) >= Stage3Begins + Len(Stage3Ops) - 1
    /\ (pc \in {"ood_check", "deep_coefficients"} \/ result = OodError) =>
            public_coin = CoinAfterOod

C15_Witness ==
    /\ Done /\ result = OodError
    /\ aux_frame_present
    /\ Len(log) = Stage3Begins + Len(Stage3Ops) - 1
    /\ public_coin = CoinAfterOod

\* ---------------------------------------------------- the OOD reduction

RECURSIVE IntPow(_, _)
IntPow(b, e) == IF e = 0 THEN 1 ELSE b * IntPow(b, e - 1)

\* sum over the columns of z^i * value_i, i the column's index from 0, taken
\* in the integers and reduced once.
RECURSIVE WeightedSum(_, _, _)
WeightedSum(point, values, n) ==
    IF n = 0 THEN 0
    ELSE WeightedSum(point, values, n - 1) + IntPow(point, n - 1) * values[n]

PowerSum(point, values) == WeightedSum(point, values, Len(values)) % Modulus

\* C16: whatever z and whatever columns were read, ood_constraint_evaluation_2
\* is the sum of z^i * value_i over the columns, i the column's index, z^0
\* being 1: zero for no column, value_0 for one; and the comparison that
\* follows is between that sum and the evaluator's result.
C16_OodReductionIsPowerSum ==
    Did("read", "ood_constraint_evaluations") =>
        /\ ood_constraint_evaluations = proof.ood_constraint_evaluations
        /\ ood_constraint_evaluation_2 = PowerSum(z, ood_constraint_evaluations)
        /\ ood_constraint_evaluations = <<>> => ood_constraint_evaluation_2 = 0
        /\ Len(ood_constraint_evaluations) = 1 =>
                ood_constraint_evaluation_2 = ood_constraint_evaluations[1]
        /\ pc # "ood_check" =>
                (result = OodError <=>
                    ood_constraint_evaluation_1 # PowerSum(z, ood_constraint_evaluations))

C16_Witness ==
    /\ Did("read", "ood_constraint_evaluations")
    /\ pc = "deep_coefficients"
    /\ z = 2
    /\ ood_constraint_evaluations = <<1, 3, 4>>
    /\ ood_constraint_evaluation_2 = 3

\* ------------------------------------------------------ failed derivations

Derivations ==
    {"aux_rand_elements", "constraint_coeffs", "z", "deep_coefficients", "query_positions"}

\* The local a derivation would have bound holds nothing.
Unbound(e) ==
    CASE e.obj = "aux_rand_elements" -> Len(aux_trace_rand_elements) = e.idx
      [] e.obj = "constraint_coeffs" -> constraint_coeffs = <<>>
      [] e.obj = "z" -> z = 0
      [] e.obj = "deep_coefficients" -> deep_coefficients = <<>>
      [] e.obj = "query_positions" -> query_positions = <<>>

\* C17: a derivation from the coin that fails (auxiliary random elements,
\* constraint composition coefficients, z, DEEP coefficients, query positions)
\* is the last operation of its call, which has ended with the random coin
\* error; the same derivation was not made before in the call, the value it
\* was to give is not bound, and the call ends with that error for no other
\* reason.
C17_FailedDerivationIsFinal ==
    /\ \A k \in 1 .. Len(log) :
            log[k].op = "draw" =>
                /\ log[k].obj \in Derivations
                /\ \A j \in 1 .. k - 1 :
                        ~(log[j].op = "draw" /\ log[j].obj = log[k].obj
                            /\ log[j].idx = log[k].idx)
                /\ ~log[k].ok =>
                        /\ k = Len(log)
                        /\ Done /\ result = "RandomCoinError"
                        /\ Unbound(log[k])
                        /\ deep_evaluations = <<>> /\ position_uses = <<>>
    /\ result = "RandomCoinError" =>
            /\ log # <<>>
            /\ log[Len(log)].op = "draw" /\ ~log[Len(log)].ok

C17_Witness ==
    /\ Done /\ result = "RandomCoinError"
    /\ DidWith("draw", "deep_coefficients", FALSE)
    /\ deep_coefficients = <<>>

\* ------------------------------------------------- one set of positions

ConsumerOrder ==
    <<"read_queried_trace_states", "read_constraint_evaluations", "DeepComposer",
      "fri_verifier.verify">>

Consumers == [k \in 1 .. Len(position_uses) |-> position_uses[k].consumer]

\* The positions the transcript gives, drawn once from the coin that has
\* absorbed the nonce.
DerivedPositions ==
    draw_integers(CoinAfterNonce, context.num_queries, context.lde_domain_size).values

DrawsOfPositions ==
    Cardinality({k \in 1 .. Len(log) : log[k].op = "draw" /\ log[k].obj = "query_positions"})

\* The rows of the OOD frame as the proof holds them, main values first.
ProofRows ==
    IF Len(proof.trace_commitments) > 1
    THEN <<proof.ood_main_trace_frame.current \o proof.ood_aux_trace_frame.current,
           proof.ood_main_trace_frame.next \o proof.ood_aux_trace_frame.next>>
    ELSE <<proof.ood_main_trace_frame.current, proof.ood_main_trace_frame.next>>

\* C18: the query positions are drawn at most once in a call; the queried
\* trace read, the queried constraint read, the DEEP composer and the final
\* FRI verification are each handed that very sequence, in that order; and
\* the DEEP composition is made from the z that was drawn in stage 2 and from
\* the OOD frame and OOD constraint evaluations that were read, absorbed and
\* compared in stage 3.
C18_PositionsAndOodValuesShared ==
    LET derived == DerivedPositions
        drawn_z == draw(CoinBeforeZ).value
    IN /\ DrawsOfPositions <= 1
       /\ IsPrefix(Consumers, ConsumerOrder)
       /\ position_uses # <<>> =>
               /\ DidWith("draw", "query_positions", TRUE)
               /\ query_positions = derived
               /\ \A k \in 1 .. Len(position_uses) :
                       position_uses[k].positions = query_positions
       /\ DidWith("read", "queried_trace_states", TRUE) =>
               queried_trace_states =
                   [k \in 1 .. Len(query_positions) |-> TraceStateAt(query_positions[k])]
       /\ DidWith("read", "constraint_evaluations", TRUE) =>
               queried_constraint_evaluations =
                   [k \in 1 .. Len(query_positions) |->
                       ConstraintEvaluationAt(query_positions[k])]
       /\ composer.built =>
               /\ composer.query_positions = derived
               /\ composer.z = z /\ z = drawn_z
               /\ composer.cc = deep_coefficients
               /\ ood_main_trace_frame = proof.ood_main_trace_frame
               /\ ood_aux_trace_frame = proof.ood_aux_trace_frame
               /\ ood_constraint_evaluations = proof.ood_constraint_evaluations
               /\ ood_constraint_evaluation_2 =
                       ReduceOodEvaluations(z, ood_constraint_evaluations)
               /\ ood_constraint_evaluation_1 = ood_constraint_evaluation_2
               /\ deep_evaluations =
                       DeepCompose(composer.query_positions, drawn_z, deep_coefficients,
                                   queried_trace_states, queried_constraint_evaluations,
                                   ProofRows, proof.ood_constraint_evaluations)

C18_Witness ==
    /\ Consumers = ConsumerOrder
    /\ Len(query_positions) = 2
    /\ composer.built /\ composer.query_positions = query_positions
    /\ Len(proof.trace_commitments) = 2

\* ------------------------------------------- the auxiliary random elements

\* The segment indices of the operations of one kind in the current call.
IndicesOf(op, obj) ==
    LET hits == SelectSeq(log, LAMBDA e : e.op = op /\ e.obj = obj)
    IN [k \in 1 .. Len(hits) |-> hits[k].idx]

\* C19: when the constraint evaluator has been invoked, the bundle of
\* auxiliary random elements holds one entry per auxiliary segment (the trace
\* commitments less one), drawn for the auxiliary indices 0, 1, ... in that
\* order, and stage 1 has reseeded the coin once per trace commitment, in
\* segment order; a trace of one segment leaves the bundle empty after one
\* reseed.
C19_AuxBundleMatchesSegments ==
    pc = "reseed_ood_frame" =>
        /\ LastOp = Op("evaluate", "constraints", 0)
        /\ Len(trace_commitments) >= 1
        /\ Len(aux_trace_rand_elements) = Len(trace_commitments) - 1
        /\ aux_trace_rand_elements =
                Stage1After(trace_commitments, Len(trace_commitments) - 1).elements
        /\ IndicesOf("draw", "aux_rand_elements") =
                [k \in 1 .. Len(trace_commitments) - 1 |-> k - 1]
        /\ IndicesOf("reseed", "trace_commitment") =
                [k \in 1 .. Len(trace_commitments) |-> k - 1]
        /\ Len(trace_commitments) = 1 =>
                /\ aux_trace_rand_elements = <<>>
                /\ ~Did("draw", "aux_rand_elements")
                /\ Len(IndicesOf("reseed", "trace_commitment")) = 1

C19_Witness ==
    /\ pc = "reseed_ood_frame"
    /\ Len(trace_commitments) = 2
    /\ Len(aux_trace_rand_elements) = 1
    /\ IndicesOf("reseed", "trace_commitment") = <<0, 1>>

\* ----------------------------------------------------------------- the seed

\* The serialization of the public inputs followed by that of the context.
InputsThenContext(pi, ctx) == WritePubInputs(pi) \o WriteContext(ctx)

\* C20: once built, the seed is the serialization of the public inputs
\* followed by the serialization of the proof's context; in each of the three
\* extension branches the coin is created from exactly that seed; and no other
\* public inputs or context give the same seed.
C20_SeedIsInputsThenContext ==
    /\ pc \notin {"idle", "seed"} =>
            public_coin_seed = InputsThenContext(pub_inputs, context)
    /\ pc \in {"seed", "dispatch", "coin"} => public_coin = NoCoin
    /\ pc = "channel" =>
            /\ public_coin = RandomCoin_new(InputsThenContext(pub_inputs, context))
            /\ LogOps = <<Op("new", "coin", 0)>>
    /\ (pc = "dispatch" /\ call = 1) =>
            \A pi \in PubInputs, ctx \in Contexts :
                (pi # pub_inputs \/ ctx # context) =>
                    InputsThenContext(pi, ctx) # public_coin_seed

C20_Witness ==
    /\ pc = "channel"
    /\ context.field_extension = "Quadratic"
    /\ pub_inputs = 2
    /\ public_coin = RandomCoin_new(<<2>> \o WriteContext(context))

====
